---- MODULE Spec2Model ----
(***************************************************************************)
(* Model of the support run of gaza-bot: SupportService.startSupporting,   *)
(* SupportService.supportChannel and the services they call                *)
(* (VideoService, EngagementService, NavigationService, DataService).      *)
(***************************************************************************)
EXTENDS Integers, Sequences, FiniteSets, TLC

\* ------------------------------------------------------------------ bounds
MaxChannels == 3      \* longest channel list in channels.json
MaxComments == 3      \* longest comment pool in comments.json
MaxVisits   == 3      \* calls of supportChannel over all runs
RandRes     == 4      \* Math.random() yields k / RandRes, k in 0..RandRes-1
MaxDuration == 600    \* longest video of the calculator specification
MaxWatchDuration == 45

\* ------------------------------------------------- constants of the program
checkInterval       == 10    \* seconds between two polls of the watch loop
DefaultPercentage   == 70
DefaultMinWatchTime == 60
DefaultMaxWatchTime == 600
DefaultPause        == 30
DefaultDuration     == 300

\* ---------------------------------------------------------------- helpers
Min(a, b) == IF a <= b THEN a ELSE b
Max(a, b) == IF a >= b THEN a ELSE b

Range(s) == {s[k] : k \in DOMAIN s}

Undefined == "undefined"

\* JavaScript array read: array[index], undefined outside 0..length-1
At(array, index) ==
  IF index \in 0..(Len(array) - 1) THEN array[index + 1] ELSE Undefined

\* Array.prototype.slice(begin, end) with 0 <= begin, end; both clamped to length
Slice(array, begin, end) ==
  LET b == Min(begin, Len(array))
      e == Min(end, Len(array))
  IN  IF b >= e THEN <<>> ELSE SubSeq(array, b + 1, e)

RECURSIVE Pow2(_)
Pow2(n) == IF n <= 0 THEN 1 ELSE 2 * Pow2(n - 1)

RECURSIVE BitLength(_)
BitLength(n) == IF n <= 0 THEN 0 ELSE 1 + BitLength(n \div 2)

\* ------------------------------------------------ IEEE-754 double arithmetic
\* settings.watchTimePercentage / 100 is a double: the quotient p/100 rounded
\* to 53 significant bits (round half to even).  DivStep is the binary long
\* division of p by 100: r is the running remainder, e the number of
\* fraction bits produced, cnt the number of significant bits, last the last
\* bit.  The result is <<e, eps>> with  100 * M = p * 2^e + eps  for the
\* mantissa M of the double, i.e. the double is p/100 + eps / (100 * 2^e).
RECURSIVE DivStep(_, _, _, _)
DivStep(r, e, cnt, last) ==
  IF cnt = 53
  THEN LET up == (2 * r > 100) \/ (2 * r = 100 /\ last = 1)
       IN  <<e, IF up THEN 100 - r ELSE 0 - r>>
  ELSE LET r2  == 2 * r
           bit == IF r2 >= 100 THEN 1 ELSE 0
       IN  DivStep(r2 - 100 * bit, e + 1,
                   IF bit = 1 \/ cnt > 0 THEN cnt + 1 ELSE cnt, bit)

PercentAsDouble(p) == DivStep(p, 0, 0, 0)

\* Math.floor(d * w) where w is the double of p / 100 and the product is
\* rounded to a double before the floor (integers d >= 1, 1 <= p <= 100).
\* With N = floor(d*p/100): the exact product d*w differs from d*p/100 by
\* d*eps/(100*2^e), far less than 1/100, so the floor is N unless d*p/100
\* is an integer and w lies below p/100; then the product lies just below N
\* and the floor is N only when rounding to 53 bits carries it up to N, that
\* is when its distance to N is at most half an ulp, 2^(b-54), with
\* b = BitLength(N - 1).
FloorOfProduct(d, p) ==
  IF p = 100 THEN d
  ELSE LET w   == PercentAsDouble(p)
           e   == w[1]
           eps == w[2]
           N   == (d * p) \div 100
           rho == (d * p) % 100
       IN  IF rho # 0 \/ eps >= 0 THEN N
           ELSE IF 2 * d * (0 - eps) <= 100 * Pow2(e + BitLength(N - 1) - 53)
                THEN N ELSE N - 1

\* -------------------------------------------- VideoService.calculateWatchTime
\* videoDetails and settings are records; the fields read are
\* durationSeconds, watchTimePercentage, minWatchTimeSeconds, maxWatchTimeSeconds.
calculateWatchTime_noMinCap(videoDetails, settings) ==
  Max(settings.minWatchTimeSeconds,
      Min(FloorOfProduct(videoDetails.durationSeconds, settings.watchTimePercentage),
          settings.maxWatchTimeSeconds))

calculateWatchTime(videoDetails, settings) ==
  LET targetWatchTime ==
        FloorOfProduct(videoDetails.durationSeconds, settings.watchTimePercentage)
  IN  Max(Min(settings.minWatchTimeSeconds, videoDetails.durationSeconds),
          Min(targetWatchTime, settings.maxWatchTimeSeconds))

\* ------------------------------------------- EngagementService: comment choice
\* Math.floor(Math.random() * comments.length), Math.random() = r / RandRes
RandomIndex_round(r, length) == (2 * r * length + RandRes) \div (2 * RandRes)

RandomIndex(r, length) == (r * length) \div RandRes

getRandomComment(comments, r) == At(comments, RandomIndex(r, Len(comments)))

\* EngagementService.getNextComment(comments, settings): the result is the
\* record {comment, index, isRotated}.  mode is the externally selected
\* selection style.  lastCommentIndex + 1 >= 0, so % is the mathematical mod.
getNextComment(comments, settings, mode, r) ==
  IF mode = "rotation"
  THEN LET nextIndex == (settings.lastCommentIndex + 1) % Len(comments)
       IN  [comment |-> At(comments, nextIndex), index |-> nextIndex,
            isRotated |-> TRUE]
  ELSE [comment |-> getRandomComment(comments, r),
        index |-> RandomIndex(r, Len(comments)), isRotated |-> FALSE]

\* ------------------------------------------------------------------- state
VARIABLES
  channelsFile,       \* data/gazaSupport/channels.json: sequence of records
  commentsFile,       \* data/gazaSupport/comments.json: sequence of strings
  settingsFile,       \* data/gazaSupport/settings.json: one record
  pc,                 \* position of startSupporting / supportChannel
  heap,               \* the channel objects of the run, by address
  channels,           \* const channels: array of addresses, in file order
  comments,           \* const comments
  settings,           \* const settings: the object mutated in place
  reorderedChannels,  \* const reorderedChannels: array of addresses
  i,                  \* loop index of the for loop
  originalIndex,      \* const originalIndex of the loop body
  videoDetails,       \* const videoDetails of supportChannel
  watchTime,          \* const watchTime of supportChannel
  commentResult,      \* const commentResult of supportChannel
  initialVideoId,     \* const initialVideoId of watchVideo
  elapsedSeconds,     \* let elapsedSeconds of watchVideo
  watchState,         \* NotStarted, Watching, Completed, Interrupted, Errored
  success,            \* const success of the loop body
  exitReason,         \* why startSupporting last returned to the menu
  staleQuestion,      \* readline still holds the question of a prompt that timed out
  slept,              \* seconds the loop of watchVideo has slept in this visit
  skipped,            \* engagement actions of this visit that returned false, until the watch
  visits,             \* number of supportChannel calls so far; also the clock
  commentLog,         \* indices chosen in rotation mode, oldest first
  pre,                \* the files' values when the current visit began
  written,            \* the files written so far
  succeeded,          \* per position of channels.json: visits that returned true
  runLast,            \* original index of the run's last supported channel
  prevRun             \* channel ids and runLast of the run before, until the first visit

vars == <<channelsFile, commentsFile, settingsFile, pc, heap, channels, comments,
          settings, reorderedChannels, i, originalIndex, videoDetails, watchTime,
          commentResult, initialVideoId, elapsedSeconds, watchState, success,
          exitReason, staleQuestion, slept, skipped, visits, commentLog, pre, written, succeeded, runLast, prevRun>>

fileVars  == <<channelsFile, commentsFile, settingsFile>>
runVars   == <<heap, channels, comments, settings, reorderedChannels, i, originalIndex>>
visitVars == <<videoDetails, watchTime, commentResult, initialVideoId, elapsedSeconds,
               watchState, success>>
logVars   == <<visits, commentLog, pre, written, succeeded, runLast, prevRun>>

None == "none"

\* commentResult outside the comment step of a visit
NoComment == [comment |-> 0, index |-> -1, isRotated |-> FALSE]

\* videoDetails before getVideoDetails has returned
NoDetails == [durationSeconds |-> 0]

ChannelId(k) == 100 + k
CommentText(k) == 200 + k

\* a channel record as addChannel creates it
newChannel(channelId) == [id |-> channelId, supportCount |-> 0, lastSupported |-> 0]

\* the settings a settings.json can hold; the run reads and writes these fields
DefaultSettings ==
  [watchTimePercentage |-> DefaultPercentage,
   minWatchTimeSeconds |-> DefaultMinWatchTime,
   maxWatchTimeSeconds |-> DefaultMaxWatchTime,
   pauseBetweenChannelsSeconds |-> DefaultPause,
   likeVideos |-> TRUE,
   subscribeToChannels |-> TRUE,
   rotateChannels |-> FALSE,
   lastChannelIndex |-> -1,
   lastCommentIndex |-> -1,
   commentIndexUpdated |-> FALSE]

\* settings.json with the rotation of channels on or off and any last index
RotationSettings ==
  { [DefaultSettings EXCEPT !.rotateChannels = rotate, !.lastChannelIndex = channelIndex] :
      rotate \in BOOLEAN, channelIndex \in -1..(MaxChannels - 1) }

\* settings.json before any rotated comment, and after the last comment of a
\* pool of MaxComments
CommentSettings ==
  { [DefaultSettings EXCEPT !.rotateChannels = rotate, !.lastCommentIndex = commentIndex] :
      rotate \in BOOLEAN, commentIndex \in {-1, MaxComments - 1} }

\* settings.json with the two toggles of the visit
ToggleSettings ==
  { [DefaultSettings EXCEPT !.likeVideos = like, !.subscribeToChannels = subscribe] :
      like \in BOOLEAN, subscribe \in BOOLEAN }

SettingsRecords == RotationSettings \cup CommentSettings \cup ToggleSettings

\* the data files at the start, as <<channels, comments, settings>>: every
\* length of channels.json with every rotation setting, every length of
\* comments.json with every comment setting, and the toggles
InitialFiles ==
  { <<n, m, record>> : n \in 0..MaxChannels, m \in {0, 1}, record \in RotationSettings }
  \cup
  { <<n, m, record>> : n \in {0, 1, 2}, m \in 0..MaxComments, record \in CommentSettings }
  \cup
  { <<1, 1, record>> : record \in ToggleSettings }

\* no run yet; prevRun is compared with the order only as a run begins and
\* is forgotten at the run's first visit
NoRun == [ids |-> <<>>, last |-> -1]

NoPre == [lastChannelIndex |-> -1, lastCommentIndex |-> -1, supportCount |-> 0,
          lastSupported |-> 0]

Init ==
  /\ \E files \in InitialFiles :
       /\ channelsFile = [k \in 1..files[1] |-> newChannel(ChannelId(k))]
       /\ commentsFile = [k \in 1..files[2] |-> CommentText(k)]
       /\ settingsFile = files[3]
  /\ pc = "menu"
  /\ heap = <<>>
  /\ channels = <<>>
  /\ comments = <<>>
  /\ settings = settingsFile
  /\ reorderedChannels = <<>>
  /\ i = 0
  /\ originalIndex = -1
  /\ videoDetails = NoDetails
  /\ watchTime = 0
  /\ commentResult = NoComment
  /\ initialVideoId = ""
  /\ elapsedSeconds = 0
  /\ watchState = "NotStarted"
  /\ success = FALSE
  /\ exitReason = None
  /\ staleQuestion = FALSE
  /\ slept = 0
  /\ skipped = {}
  /\ visits = 0
  /\ commentLog = <<>>
  /\ pre = NoPre
  /\ written = {}
  /\ succeeded = [k \in 1..Len(channelsFile) |-> 0]
  /\ runLast = NoRun
  /\ prevRun = NoRun

\* ------------------------------------------------------ prompts and answers
NoAnswer == "no answer"
Typed == {"y", "Y", "n", "", NoAnswer}

toLowerCase(text) == IF text = "Y" THEN "y" ELSE text

\* MenuService.getInput: the trimmed line, EMPTY_INPUT for an empty one
getInput(line) == IF line = "" THEN "EMPTY_INPUT" ELSE line

\* SupportService._getInputWithTimeout: the timer resolves with defaultValue
\* when no line arrives; an empty line yields defaultValue too.  The timer
\* does not withdraw the question from readline: while the question of a
\* timed-out prompt is still registered, rl.question of the next prompt
\* registers nothing, the next line goes to the old callback (whose promise
\* is already resolved), and the prompt ends by its timer.
getInputWithTimeout(line, defaultValue) ==
  IF line = NoAnswer \/ staleQuestion THEN defaultValue
  ELSE LET trimmedAnswer == getInput(line)
       IN  IF trimmedAnswer = "" \/ trimmedAnswer = "EMPTY_INPUT"
           THEN defaultValue ELSE trimmedAnswer

\* readline after the prompt: a line consumes the registered question, no
\* line leaves one behind
questionLeft(line) == line = NoAnswer

\* ------------------------------------------------------------- DataService
loadChannels(file) == [a \in 1..Len(file) |-> file[a]]

saveChannels_rotated(objects, array) ==
  [k \in 1..Len(reorderedChannels) |-> objects[reorderedChannels[k]]]

saveChannels(objects, array) == [k \in 1..Len(array) |-> objects[array[k]]]

\* channels.findIndex(c => c.id === id): first position, -1 when absent
RECURSIVE findIndexFrom(_, _, _, _)
findIndexFrom(objects, array, id, k) ==
  IF k >= Len(array) THEN -1
  ELSE IF objects[array[k + 1]].id = id THEN k
       ELSE findIndexFrom(objects, array, id, k + 1)

findIndex(objects, array, id) == findIndexFrom(objects, array, id, 0)

\* ------------------------------------- startSupporting: the visiting order
startIndexOf_same(config, length) ==
  IF config.rotateChannels /\ config.lastChannelIndex >= 0
  THEN config.lastChannelIndex % length
  ELSE 0

startIndexOf_noWrap(config, length) ==
  IF config.rotateChannels /\ config.lastChannelIndex >= 0
  THEN config.lastChannelIndex + 1
  ELSE 0

startIndexOf(config, length) ==
  IF config.rotateChannels /\ config.lastChannelIndex >= 0
  THEN (config.lastChannelIndex + 1) % length
  ELSE 0

reorder_fromLast(array, startIndex) ==
  Slice(array, Max(startIndex - 1, 0), Len(array)) \o Slice(array, 0, startIndex)

reorder(array, startIndex) ==
  Slice(array, startIndex, Len(array)) \o Slice(array, 0, startIndex)

\* --------------------------------------------------- watchVideo: one poll
\* what page.evaluate yields at a poll; a missing video element yields an
\* object without videoId, hasEnded, isNearEnd, isPaused (all undefined)
VideoStates ==
  LET state(t, id, e, n, p) ==
        [throws |-> t, videoId |-> id, hasEnded |-> e, isNearEnd |-> n,
         isPaused |-> p]
  IN  { state(TRUE,  Undefined, FALSE, FALSE, FALSE),
        state(FALSE, Undefined, FALSE, FALSE, FALSE),
        state(FALSE, "vidA", FALSE, FALSE, FALSE),
        state(FALSE, "vidA", FALSE, FALSE, TRUE),
        state(FALSE, "vidA", TRUE,  FALSE, FALSE),
        state(FALSE, "vidA", FALSE, TRUE,  FALSE),
        state(FALSE, "vidB", FALSE, FALSE, FALSE),
        state(FALSE, "",     FALSE, FALSE, FALSE) }

InitialVideoIds == {"vidA", ""}

\* the result of one pass through the loop body: Errored (a throw),
\* Interrupted (break on a changed id), Completed (break on ended / near end)
\* or Continue (elapsedSeconds += checkInterval)
pollResult_noEndCheck(videoState, startId) ==
  IF videoState.throws THEN "Errored"
  ELSE IF videoState.videoId # startId /\ startId # "" THEN "Interrupted"
  ELSE "Continue"

pollResult(videoState, startId) ==
  IF videoState.throws THEN "Errored"
  ELSE IF videoState.videoId # startId /\ startId # "" THEN "Interrupted"
  ELSE IF videoState.hasEnded \/ videoState.isNearEnd THEN "Completed"
  ELSE "Continue"

\* supportChannel after `await this.videoService.watchVideo(page, watchTime)`:
\* the value watchVideo resolves to is not read, the visit returns true
supportChannelReturn_checked(endState) == endState # "Interrupted"

supportChannelReturn(endState) == TRUE

\* ------------------------------------------ VideoService.getVideoDetails
\* a JavaScript number: NaN, or a value
NaN == [isNaN |-> TRUE, value |-> 0]

Num(v) == [isNaN |-> FALSE, value |-> v]

plus(a, b) == IF a.isNaN \/ b.isNaN THEN NaN ELSE Num(a.value + b.value)

times(a, k) == IF a.isNaN THEN NaN ELSE Num(a.value * k)

\* Math.round of a positive number given in tenths
round(tenths) == (tenths + 5) \div 10

\* video.html5-main-video and its duration in tenths of a second (NaN until
\* the metadata is loaded)
NoElement == [present |-> FALSE, isNaN |-> FALSE, tenths |-> 0]

VideoElements ==
  { NoElement, [present |-> TRUE, isNaN |-> TRUE, tenths |-> 0] }
    \cup { [present |-> TRUE, isNaN |-> FALSE, tenths |-> t] :
             t \in {-10, 0, 3, 7, 104, 146, 36000, 360000} }

\* .ytp-time-duration: its text split at ':' and mapped with Number
NoText == [present |-> FALSE, parts |-> <<>>]

DurationTexts ==
  { NoText }
    \cup { [present |-> TRUE, parts |-> parts] :
             parts \in { <<Num(0)>>, <<NaN>>, <<Num(0), Num(0)>>, <<Num(0), Num(10)>>,
                         <<Num(0), Num(15)>>, <<NaN, Num(10)>>, <<Num(-1), Num(0)>>,
                         <<Num(1), Num(0), Num(0)>>, <<Num(1), NaN, Num(0)>>,
                         <<Num(1), Num(2), Num(3), Num(4)>> } }

\* what the page offers to getVideoDetails
VideoPages ==
  { [throws |-> t, isLive |-> live, element |-> element, text |-> text] :
      t \in BOOLEAN, live \in BOOLEAN, element \in VideoElements, text \in DurationTexts }

\* videoElement && videoElement.duration && duration > 0 && duration < 36000
reliable(element) ==
  element.present /\ ~element.isNaN /\ element.tenths # 0
    /\ element.tenths > 0 /\ element.tenths < 360000

\* the seconds parsed from the parts of the duration text
textSeconds(parts, unset) ==
  IF Len(parts) = 3
  THEN plus(plus(times(parts[1], 3600), times(parts[2], 60)), parts[3])
  ELSE IF Len(parts) = 2 THEN plus(times(parts[1], 60), parts[2])
  ELSE unset

\* !details.durationSeconds || details.durationSeconds <= 0
unusable(seconds) == seconds.isNaN \/ seconds.value = 0 \/ seconds.value <= 0

getVideoDetails_unverified(page) ==
  IF page.throws \/ page.isLive THEN DefaultDuration
  ELSE LET read == IF reliable(page.element) THEN Num(round(page.element.tenths))
                   ELSE IF page.text.present
                        THEN textSeconds(page.text.parts, Num(DefaultDuration))
                        ELSE Num(DefaultDuration)
       IN  read.value

\* durationSeconds of the details getVideoDetails resolves to
getVideoDetails(page) ==
  IF page.throws \/ page.isLive THEN DefaultDuration
  ELSE LET read == IF reliable(page.element) THEN Num(round(page.element.tenths))
                   ELSE IF page.text.present
                        THEN textSeconds(page.text.parts, Num(DefaultDuration))
                        ELSE Num(DefaultDuration)
       IN  IF unusable(read) THEN DefaultDuration ELSE read.value

\* the durations getVideoDetails reports in the run specification
Durations == {10, 15}

\* the pages of the run specification: those of videos of these durations
ShortVideoPages == { page \in VideoPages : getVideoDetails(page) \in Durations }

\* the two emptiness checks of startSupporting
isEmpty_never(array) == FALSE

isEmpty(array) == Len(array) = 0

\* `settings.lastCommentIndex = commentResult.index` and the marker
storeCommentIndex_forgotten(config, result) ==
  [config EXCEPT !.commentIndexUpdated = TRUE]

storeCommentIndex_next(config, result) ==
  [config EXCEPT !.lastCommentIndex = result.index + 1, !.commentIndexUpdated = TRUE]

storeCommentIndex(config, result) ==
  [config EXCEPT !.lastCommentIndex = result.index, !.commentIndexUpdated = TRUE]

\* `settings.lastChannelIndex = originalIndex` in the loop body; position is i
lastChannelIndexAfter_position(original, position) == position

lastChannelIndexAfter(original, position) == original

\* `channel.supportCount = (channel.supportCount || 0) + 1`
incrementCount_fromZero(count) == 1

incrementCount(count) == count + 1

\* settingsUpdated of the loop body
settingsUpdated_markerOnly(config) == config.commentIndexUpdated

settingsUpdated(config) == config.rotateChannels \/ config.commentIndexUpdated

\* `delete settings._commentIndexUpdated`, done when the marker is there
deleteMarker_kept(config) == config

deleteMarker(config) ==
  IF config.commentIndexUpdated THEN [config EXCEPT !.commentIndexUpdated = FALSE]
  ELSE config

\* ---------------------------------------------------------------- actions
Now == visits

ReturnToMenu(reason) ==
  /\ pc' = "menu"
  /\ exitReason' = reason

\* the call is over: its channels, comments, settings, reorderedChannels and
\* i no longer exist
DropLocals ==
  /\ heap' = <<>>
  /\ channels' = <<>>
  /\ comments' = <<>>
  /\ settings' = settingsFile
  /\ reorderedChannels' = <<>>
  /\ i' = 0

\* the main menu calls supportService.startSupporting()
MenuStart ==
  /\ pc = "menu"
  /\ pc' = "start"
  /\ exitReason' = None
  /\ UNCHANGED <<fileVars, runVars, visitVars, logVars>>
  /\ UNCHANGED <<staleQuestion, slept, skipped>>

\* startSupporting up to the start confirmation: the two checks, the loads,
\* the two emptiness checks; a call that returns here leaves nothing behind
Begin(browserStarted, isAuthenticated) ==
  /\ pc = "start"
  /\ IF ~browserStarted
     THEN ReturnToMenu("noBrowser") /\ UNCHANGED <<heap, channels, settings, comments>>
     ELSE IF ~isAuthenticated
     THEN ReturnToMenu("notAuthenticated")
          /\ UNCHANGED <<heap, channels, settings, comments>>
     ELSE LET loaded == loadChannels(channelsFile)
          IN  IF isEmpty(loaded)
              THEN ReturnToMenu("noChannels")
                   /\ UNCHANGED <<heap, channels, settings, comments>>
              ELSE IF isEmpty(commentsFile)
              THEN ReturnToMenu("noComments")
                   /\ UNCHANGED <<heap, channels, settings, comments>>
              ELSE /\ heap' = loaded
                   /\ channels' = [k \in 1..Len(loaded) |-> k]
                   /\ settings' = settingsFile
                   /\ comments' = commentsFile
                   /\ pc' = "confirm"
                   /\ UNCHANGED exitReason
  /\ UNCHANGED <<fileVars, reorderedChannels, i, originalIndex, visitVars, logVars>>
  /\ UNCHANGED <<staleQuestion, slept, skipped>>

\* 'Start supporting now? (y/n)', then the visiting order
ConfirmStart(line) ==
  /\ pc = "confirm"
  /\ LET confirm == getInputWithTimeout(line, "y")
     IN  IF toLowerCase(confirm) # "y"
         THEN /\ ReturnToMenu("cancelled")
              /\ DropLocals
              /\ UNCHANGED <<runLast, prevRun>>
         ELSE /\ reorderedChannels' =
                   reorder(channels, startIndexOf(settings, Len(channels)))
              /\ i' = 0
              /\ pc' = "visit"
              /\ prevRun' = runLast
              /\ runLast' = [ids |-> [k \in 1..Len(channels) |-> heap[channels[k]].id],
                             last |-> -1]
              /\ UNCHANGED <<heap, channels, comments, settings, exitReason>>
  /\ UNCHANGED <<fileVars, originalIndex, visitVars, visits, commentLog, pre, written,
                 succeeded>>
  /\ staleQuestion' = questionLeft(line)
  /\ UNCHANGED <<slept, skipped>>

\* the visit returns false before it reached the watch
VisitFails_abort ==
  /\ success' = FALSE
  /\ pc' = "menu"

VisitFails ==
  /\ success' = FALSE
  /\ pc' = "record"

\* loop body up to supportChannel's navigation to the channel's videos page
Navigate(pageExists, navigated) ==
  /\ pc = "visit"
  /\ visits < MaxVisits
  /\ LET channel == reorderedChannels[i + 1]
     IN  /\ originalIndex' = findIndex(heap, channels, heap[channel].id)
         /\ pre' = [lastChannelIndex |-> settingsFile.lastChannelIndex,
                    lastCommentIndex |-> settingsFile.lastCommentIndex,
                    supportCount |-> channelsFile[originalIndex' + 1].supportCount,
                    lastSupported |-> channelsFile[originalIndex' + 1].lastSupported]
  /\ visits' = visits + 1
  /\ prevRun' = NoRun
  /\ IF pageExists /\ navigated
     THEN pc' = "find" /\ UNCHANGED success
     ELSE VisitFails
  /\ UNCHANGED <<fileVars, heap, channels, comments, settings, reorderedChannels, i,
                 videoDetails, watchTime, commentResult, initialVideoId, elapsedSeconds,
                 watchState, exitReason, commentLog, written, succeeded, runLast>>
  /\ UNCHANGED <<staleQuestion, slept, skipped>>

\* navigationService.findLatestVideo: a url, or null
FindLatestVideo(found) ==
  /\ pc = "find"
  /\ IF found THEN pc' = "goto" /\ UNCHANGED success ELSE VisitFails
  /\ UNCHANGED <<fileVars, runVars, videoDetails, watchTime, commentResult,
                 initialVideoId, elapsedSeconds, watchState, exitReason, logVars>>
  /\ UNCHANGED <<staleQuestion, slept, skipped>>

\* page.goto(videoUrl) may throw; skipAdsIfPresent catches its own errors
GotoVideo(loaded) ==
  /\ pc = "goto"
  /\ IF loaded THEN pc' = "details" /\ UNCHANGED success ELSE VisitFails
  /\ UNCHANGED <<fileVars, runVars, videoDetails, watchTime, commentResult,
                 initialVideoId, elapsedSeconds, watchState, exitReason, logVars>>
  /\ UNCHANGED <<staleQuestion, slept, skipped>>

\* the step after the watch time with the subscribe setting not read
AfterDetails_always == "subscribe"

AfterDetails ==
  IF settings.subscribeToChannels THEN "subscribe"
  ELSE IF settings.likeVideos THEN "like" ELSE "comment"

\* videoService.getVideoDetails
GetVideoDetails(page) ==
  /\ pc = "details"
  /\ videoDetails' = [durationSeconds |-> getVideoDetails(page)]
  /\ pc' = "calculate"
  /\ UNCHANGED <<fileVars, runVars, watchTime, commentResult, initialVideoId,
                 elapsedSeconds, watchState, success, exitReason, logVars>>
  /\ UNCHANGED <<staleQuestion, slept, skipped>>

\* videoService.calculateWatchTime(videoDetails, settings)
CalculateWatchTime ==
  /\ pc = "calculate"
  /\ watchTime' = calculateWatchTime(videoDetails, settings)
  /\ pc' = AfterDetails
  /\ UNCHANGED <<fileVars, runVars, videoDetails, commentResult, initialVideoId,
                 elapsedSeconds, watchState, success, exitReason, logVars>>
  /\ UNCHANGED <<staleQuestion, slept, skipped>>

\* the boolean an engagement action resolves to: false when its control is
\* absent or the action on it throws (caught inside the action)
skippedAfter(done, action, result) == IF result THEN done ELSE done \cup {action}

\* engagementService.subscribeToChannel: its result is not read
Subscribe(subscribed) ==
  /\ pc = "subscribe"
  /\ pc' = IF settings.likeVideos THEN "like" ELSE "comment"
  /\ skipped' = skippedAfter(skipped, "subscribe", subscribed)
  /\ UNCHANGED <<fileVars, runVars, visitVars, exitReason, logVars>>
  /\ UNCHANGED <<staleQuestion, slept>>

\* engagementService.likeVideo: its result is not read
Like_abort(liked) ==
  /\ pc = "like"
  /\ IF liked THEN pc' = "comment" /\ UNCHANGED success ELSE VisitFails
  /\ skipped' = skippedAfter(skipped, "like", liked)
  /\ UNCHANGED <<fileVars, runVars, videoDetails, watchTime, commentResult, initialVideoId>>
  /\ UNCHANGED <<elapsedSeconds, watchState, exitReason, logVars, staleQuestion, slept>>

Like(liked) ==
  /\ pc = "like"
  /\ pc' = "comment"
  /\ skipped' = skippedAfter(skipped, "like", liked)
  /\ UNCHANGED <<fileVars, runVars, visitVars, exitReason, logVars>>
  /\ UNCHANGED <<staleQuestion, slept>>

\* getNextComment, leaveComment (its result is not read), and the update of
\* settings.lastCommentIndex with the marker _commentIndexUpdated
Comment(mode, r, posted) ==
  /\ pc = "comment"
  /\ commentResult' = getNextComment(comments, settings, mode, r)
  /\ IF commentResult'.isRotated
     THEN /\ settings' = storeCommentIndex(settings, commentResult')
          /\ commentLog' = Append(commentLog, commentResult'.index)
     ELSE UNCHANGED <<settings, commentLog>>
  /\ pc' = "watch"
  /\ UNCHANGED <<fileVars, heap, channels, comments, reorderedChannels, i,
                 originalIndex, videoDetails, watchTime, initialVideoId, elapsedSeconds,
                 watchState, success, exitReason, visits, pre, written, succeeded, runLast,
                 prevRun>>
  /\ skipped' = skippedAfter(skipped, "comment", posted)
  /\ UNCHANGED <<staleQuestion, slept>>

\* watchVideo leaves its loop or its try block in state endState and returns;
\* supportChannel returns: initialVideoId and videoDetails end with the two
\* calls; the target and the elapsed time of the watch stay until the loop
\* body has recorded the visit
WatchEnds(endState) ==
  /\ watchState' = endState
  /\ initialVideoId' = ""
  /\ videoDetails' = NoDetails
  /\ success' = supportChannelReturn(endState)
  /\ pc' = "record"

\* watchVideo up to the loop: scroll and play, read initialVideoId
\* (commentResult is not read after the comment step)
WatchStart(evaluated, videoId) ==
  /\ pc = "watch"
  /\ IF ~evaluated
     THEN WatchEnds("Errored")
     ELSE IF 0 < watchTime
          THEN /\ initialVideoId' = videoId
               /\ watchState' = "Watching"
               /\ pc' = "sleep"
               /\ UNCHANGED <<videoDetails, success>>
          ELSE WatchEnds("Completed")
  /\ elapsedSeconds' = 0
  /\ commentResult' = NoComment
  /\ UNCHANGED <<fileVars, runVars, watchTime, exitReason, logVars>>
  /\ skipped' = {}
  /\ UNCHANGED <<staleQuestion, slept>>

\* elapsedSeconds += checkInterval
elapsedAfter_half(elapsed) == elapsed + checkInterval \div 2

elapsedAfter_twice(elapsed) == elapsed + 2 * checkInterval

elapsedAfter(elapsed) == elapsed + checkInterval

\* the body of `while (elapsedSeconds < watchTimeSeconds)` begins:
\* await this.sleep(checkInterval * 1000)
Sleep ==
  /\ pc = "sleep"
  /\ slept' = slept + checkInterval
  /\ pc' = "poll"
  /\ UNCHANGED <<fileVars, runVars, visitVars, exitReason, staleQuestion, skipped, logVars>>

\* the rest of the loop body, from page.evaluate to the test of the condition
Poll(videoState) ==
  /\ pc = "poll"
  /\ elapsedSeconds < watchTime
  /\ LET result == pollResult(videoState, initialVideoId)
     IN  IF result # "Continue"
         THEN WatchEnds(result) /\ UNCHANGED elapsedSeconds
         ELSE /\ elapsedSeconds' = elapsedAfter(elapsedSeconds)
              /\ IF elapsedSeconds' < watchTime
                 THEN /\ pc' = "sleep"
                      /\ UNCHANGED <<watchState, success, initialVideoId, videoDetails>>
                 ELSE WatchEnds("Completed")
  /\ UNCHANGED <<fileVars, runVars, watchTime, commentResult, exitReason, logVars>>
  /\ UNCHANGED <<staleQuestion, slept, skipped>>

\* the loop body after supportChannel returned: counts, files, indices; the
\* locals of supportChannel and watchVideo no longer exist
RecordOutcome ==
  /\ pc = "record"
  /\ IF success
     THEN LET channel == reorderedChannels[i + 1]
              indexed == IF settings.rotateChannels
                         THEN [settings EXCEPT !.lastChannelIndex =
                                 lastChannelIndexAfter(originalIndex, i)]
                         ELSE settings
          IN  /\ heap' = [heap EXCEPT ![channel].supportCount = incrementCount(@),
                                      ![channel].lastSupported = Now]
              /\ succeeded' = [succeeded EXCEPT ![channel] = @ + 1]
              /\ channelsFile' = saveChannels(heap', channels)
              /\ settings' = deleteMarker(indexed)
              /\ IF settingsUpdated(settings)
                 THEN /\ settingsFile' = settings'
                      /\ written' = written \cup {"channels", "settings"}
                 ELSE /\ UNCHANGED settingsFile
                      /\ written' = written \cup {"channels"}
              /\ runLast' = [runLast EXCEPT !.last = originalIndex]
     ELSE UNCHANGED <<heap, channelsFile, settings, settingsFile, written, succeeded,
                      runLast>>
  /\ pc' = "prompt"
  /\ watchTime' = 0
  /\ elapsedSeconds' = 0
  /\ UNCHANGED <<commentsFile, channels, comments, reorderedChannels, i, originalIndex,
                 videoDetails, commentResult, initialVideoId, watchState, success,
                 exitReason, visits, commentLog, pre, prevRun>>
  /\ slept' = 0
  /\ UNCHANGED <<staleQuestion, skipped>>

\* 'Continue to next channel? (y/n)': break, or go on to the pause; the
\* body's constants (originalIndex, success) end with the iteration
ContinuePrompt(line) ==
  /\ pc = "prompt"
  /\ LET continueSupport == getInputWithTimeout(line, "y")
     IN  IF toLowerCase(continueSupport) # "y"
         THEN pc' = "restart"
         ELSE pc' = "pause"
  /\ UNCHANGED i
  /\ originalIndex' = -1
  /\ success' = FALSE
  /\ watchState' = "NotStarted"
  /\ pre' = NoPre
  /\ UNCHANGED <<fileVars, heap, channels, comments, settings, reorderedChannels,
                 videoDetails, watchTime, commentResult, initialVideoId, elapsedSeconds,
                 exitReason, visits, commentLog, written, succeeded, runLast, prevRun>>
  /\ staleQuestion' = questionLeft(line)
  /\ UNCHANGED <<slept, skipped>>

\* sleep(settings.pauseBetweenChannelsSeconds * 1000), then i++ and the test
\* of the loop condition
Pause_same ==
  /\ pc = "pause"
  /\ i' = i
  /\ pc' = IF i' < Len(reorderedChannels) THEN "visit" ELSE "restart"
  /\ UNCHANGED <<fileVars, heap, channels, comments, settings, reorderedChannels,
                 originalIndex, visitVars, exitReason, logVars>>
  /\ UNCHANGED <<staleQuestion, slept, skipped>>

Pause ==
  /\ pc = "pause"
  /\ i' = i + 1
  /\ pc' = IF i' < Len(reorderedChannels) THEN "visit" ELSE "restart"
  /\ UNCHANGED <<fileVars, heap, channels, comments, settings, reorderedChannels,
                 originalIndex, visitVars, exitReason, logVars>>
  /\ UNCHANGED <<staleQuestion, slept, skipped>>

\* the same prompt with 'n' as the answer of the timer
RestartPrompt_defaultNo(line) ==
  /\ pc = "restart"
  /\ LET restartSupport == getInputWithTimeout(line, "n")
     IN  IF toLowerCase(restartSupport) = "y"
         THEN pc' = "start" /\ UNCHANGED exitReason
         ELSE ReturnToMenu("finished")
  /\ DropLocals
  /\ UNCHANGED <<fileVars, originalIndex, visitVars, logVars>>
  /\ staleQuestion' = questionLeft(line)
  /\ UNCHANGED <<slept, skipped>>

\* 'Restart support process? (y/n)': startSupporting calls itself, or returns
RestartPrompt(line) ==
  /\ pc = "restart"
  /\ LET restartSupport == getInputWithTimeout(line, "y")
     IN  IF toLowerCase(restartSupport) = "y"
         THEN pc' = "start" /\ UNCHANGED exitReason
         ELSE ReturnToMenu("finished")
  /\ DropLocals
  /\ UNCHANGED <<fileVars, originalIndex, visitVars, logVars>>
  /\ staleQuestion' = questionLeft(line)
  /\ UNCHANGED <<slept, skipped>>

\* an exception leaves the try body of startSupporting before the first prompt:
\* a data file whose document has the wrong shape (`channels.length` or
\* `settings.watchTimePercentage` of null); DataService and supportChannel
\* catch their own errors, so nothing later in the body throws
Throws ==
  /\ pc = "start"
  /\ pc' = "error"
  /\ UNCHANGED <<fileVars, runVars, visitVars, exitReason, logVars>>
  /\ UNCHANGED <<staleQuestion, slept, skipped>>

\* the catch block: 'Try again? (y/n)', startSupporting calls itself, or returns
TryAgainPrompt(line) ==
  /\ pc = "error"
  /\ LET restartAfterError == getInputWithTimeout(line, "y")
     IN  IF toLowerCase(restartAfterError) = "y"
         THEN pc' = "start" /\ UNCHANGED exitReason
         ELSE ReturnToMenu("gaveUp")
  /\ UNCHANGED <<fileVars, runVars, visitVars, logVars>>
  /\ staleQuestion' = questionLeft(line)
  /\ UNCHANGED <<slept, skipped>>

Next ==
  \/ MenuStart
  \/ \E browserStarted \in BOOLEAN, isAuthenticated \in BOOLEAN :
       Begin(browserStarted, isAuthenticated)
  \/ \E line \in Typed : ConfirmStart(line)
  \/ \E pageExists \in BOOLEAN, navigated \in BOOLEAN : Navigate(pageExists, navigated)
  \/ \E found \in BOOLEAN : FindLatestVideo(found)
  \/ \E loaded \in BOOLEAN : GotoVideo(loaded)
  \/ \E page \in ShortVideoPages : GetVideoDetails(page)
  \/ CalculateWatchTime
  \/ \E subscribed \in BOOLEAN : Subscribe(subscribed)
  \/ \E liked \in BOOLEAN : Like(liked)
  \/ \E mode \in {"rotation", "random"}, r \in 0..(RandRes - 1), posted \in BOOLEAN :
       Comment(mode, r, posted)
  \/ \E evaluated \in BOOLEAN, videoId \in InitialVideoIds : WatchStart(evaluated, videoId)
  \/ Sleep
  \/ \E videoState \in VideoStates : Poll(videoState)
  \/ RecordOutcome
  \/ \E line \in Typed : ContinuePrompt(line)
  \/ Pause
  \/ \E line \in Typed : RestartPrompt(line)
  \/ Throws
  \/ \E line \in Typed : TryAgainPrompt(line)

Spec == Init /\ [][Next]_vars

\* ------------------------------------------- the calculator on its own
\* calculateWatchTime applied to every videoDetails and settings of the
\* ranges the settings menu accepts: supportChannel stands at the call
CalcPercentages == 10..100
CalcMinTimes == {10, 60, 300}
CalcMaxTimes == {60, 600, 3600}

InitCalc ==
  /\ channelsFile = <<newChannel(ChannelId(1))>>
  /\ commentsFile = <<CommentText(1)>>
  /\ \E percentage \in CalcPercentages, minTime \in CalcMinTimes, maxTime \in CalcMaxTimes :
       /\ minTime <= maxTime
       /\ settingsFile = [DefaultSettings EXCEPT !.watchTimePercentage = percentage,
                                                 !.minWatchTimeSeconds = minTime,
                                                 !.maxWatchTimeSeconds = maxTime]
  /\ pc = "calculate"
  /\ heap = loadChannels(channelsFile)
  /\ channels = [k \in 1..Len(channelsFile) |-> k]
  /\ comments = commentsFile
  /\ settings = settingsFile
  /\ reorderedChannels = channels
  /\ i = 0
  /\ originalIndex = 0
  /\ videoDetails \in [durationSeconds : 1..MaxDuration]
  /\ watchTime = 0
  /\ commentResult = NoComment
  /\ initialVideoId = ""
  /\ elapsedSeconds = 0
  /\ watchState = "NotStarted"
  /\ success = FALSE
  /\ exitReason = None
  /\ staleQuestion = FALSE
  /\ slept = 0
  /\ skipped = {}
  /\ visits = 1
  /\ commentLog = <<>>
  /\ pre = NoPre
  /\ written = {}
  /\ succeeded = [k \in 1..Len(channelsFile) |-> 0]
  /\ runLast = [ids |-> [k \in 1..Len(channelsFile) |-> channelsFile[k].id], last |-> -1]
  /\ prevRun = NoRun

NextCalc == CalculateWatchTime

SpecCalc == InitCalc /\ [][NextCalc]_vars

\* ------------------------------------------------- the watch loop alone
\* supportChannel at the call of watchVideo, on the first visit of a run over
\* one channel with the default settings: the target is that of a video of up
\* to MaxWatchDuration seconds
InitWatch ==
  /\ channelsFile = <<newChannel(ChannelId(1))>>
  /\ commentsFile = <<CommentText(1)>>
  /\ settingsFile = DefaultSettings
  /\ pc = "watch"
  /\ heap = loadChannels(channelsFile)
  /\ channels = [k \in 1..Len(channelsFile) |-> k]
  /\ comments = commentsFile
  /\ settings = settingsFile
  /\ reorderedChannels = channels
  /\ i = 0
  /\ originalIndex = 0
  /\ videoDetails \in [durationSeconds : 1..MaxWatchDuration]
  /\ watchTime = calculateWatchTime(videoDetails, settings)
  /\ commentResult = getNextComment(comments, settings, "random", 0)
  /\ initialVideoId = ""
  /\ elapsedSeconds = 0
  /\ watchState = "NotStarted"
  /\ success = FALSE
  /\ exitReason = None
  /\ staleQuestion = FALSE
  /\ slept = 0
  /\ skipped = {}
  /\ visits = 1
  /\ commentLog = <<>>
  /\ pre = [lastCommentIndex |-> settingsFile.lastCommentIndex,
            supportCount |-> 0, lastSupported |-> 0,
            lastChannelIndex |-> settingsFile.lastChannelIndex]
  /\ written = {}
  /\ succeeded = [k \in 1..Len(channelsFile) |-> 0]
  /\ runLast = [ids |-> [k \in 1..Len(channelsFile) |-> channelsFile[k].id], last |-> -1]
  /\ prevRun = NoRun

NextWatch ==
  \/ \E evaluated \in BOOLEAN, videoId \in InitialVideoIds : WatchStart(evaluated, videoId)
  \/ Sleep
  \/ \E videoState \in VideoStates : Poll(videoState)

SpecWatch == InitWatch /\ [][NextWatch]_vars

\* the sleep timer fires, and page.evaluate resolves or rejects: a step of
\* watchVideo that can be taken is taken (each one changes pc)
SpecWatchFair == SpecWatch /\ WF_pc(NextWatch)

\* ------------------------------------- getVideoDetails on every page
\* supportChannel at the call of getVideoDetails, on the first visit of a run
\* over one channel, under settings the settings menu accepts
DetailPercentages == {10, 70, 100}

InitDetails ==
  /\ channelsFile = <<newChannel(ChannelId(1))>>
  /\ commentsFile = <<CommentText(1)>>
  /\ \E percentage \in DetailPercentages, minTime \in CalcMinTimes, maxTime \in CalcMaxTimes :
       /\ minTime <= maxTime
       /\ settingsFile = [DefaultSettings EXCEPT !.watchTimePercentage = percentage,
                                                 !.minWatchTimeSeconds = minTime,
                                                 !.maxWatchTimeSeconds = maxTime]
  /\ pc = "details"
  /\ heap = loadChannels(channelsFile)
  /\ channels = [k \in 1..Len(channelsFile) |-> k]
  /\ comments = commentsFile
  /\ settings = settingsFile
  /\ reorderedChannels = channels
  /\ i = 0
  /\ originalIndex = 0
  /\ videoDetails = NoDetails
  /\ watchTime = 0
  /\ commentResult = NoComment
  /\ initialVideoId = ""
  /\ elapsedSeconds = 0
  /\ watchState = "NotStarted"
  /\ success = FALSE
  /\ exitReason = None
  /\ staleQuestion = FALSE
  /\ slept = 0
  /\ skipped = {}
  /\ visits = 1
  /\ commentLog = <<>>
  /\ pre = [lastCommentIndex |-> settingsFile.lastCommentIndex,
            supportCount |-> 0, lastSupported |-> 0,
            lastChannelIndex |-> settingsFile.lastChannelIndex]
  /\ written = {}
  /\ succeeded = [k \in 1..Len(channelsFile) |-> 0]
  /\ runLast = [ids |-> [k \in 1..Len(channelsFile) |-> channelsFile[k].id], last |-> -1]
  /\ prevRun = NoRun

NextDetails ==
  \/ \E page \in VideoPages : GetVideoDetails(page)
  \/ CalculateWatchTime

SpecDetails == InitDetails /\ [][NextDetails]_vars

\* ------------------------------------------------- the settings menu
\* a typed line is a sequence of characters
Digits == <<"0", "1", "2", "3", "4", "5", "6", "7", "8", "9">>

isDigit(c) == c \in Range(Digits)

digitValue(c) == (CHOOSE k \in DOMAIN Digits : Digits[k] = c) - 1

\* the decimal numeral of a natural number
RECURSIVE numeral(_)
numeral(n) == IF n < 10 THEN <<Digits[n + 1]>> ELSE Append(numeral(n \div 10), Digits[(n % 10) + 1])

\* parseInt(text): an optional sign, then the longest run of digits; what
\* follows is ignored; NaN when there is no digit
RECURSIVE parseDigits(_, _, _)
parseDigits(text, k, acc) ==
  IF k > Len(text) \/ ~isDigit(text[k]) THEN acc
  ELSE parseDigits(text, k + 1, 10 * acc + digitValue(text[k]))

parseInt(text) ==
  LET signed == Len(text) > 0 /\ text[1] \in {"-", "+"}
      first  == IF signed THEN 2 ELSE 1
      size   == parseDigits(text, first, 0)
  IN  IF first > Len(text) \/ ~isDigit(text[first])
      THEN [isNaN |-> TRUE, value |-> 0]
      ELSE [isNaN |-> FALSE,
            value |-> IF signed /\ text[1] = "-" THEN 0 - size ELSE size]

EmptyInput == <<"EMPTY_INPUT">>

\* MenuService.getInput for a line of characters
getInputText(text) == IF text = <<>> THEN EmptyInput ELSE text

cancelled(input) == input = <<"0">> \/ input = EmptyInput

\* each handler: the record it writes to settings.json, or the file's record
\* when it returns without saving
changeWatchTimePercentage(record, input) ==
  LET newValue == parseInt(input)
  IN  IF cancelled(input) THEN record
      ELSE IF newValue.isNaN \/ newValue.value < 10 \/ newValue.value > 100 THEN record
      ELSE [record EXCEPT !.watchTimePercentage = newValue.value]

changeMinWatchTime_unchecked(record, input) ==
  LET newValue == parseInt(input)
  IN  IF cancelled(input) THEN record
      ELSE IF newValue.isNaN \/ newValue.value < 10 \/ newValue.value > 300 THEN record
      ELSE [record EXCEPT !.minWatchTimeSeconds = newValue.value]

changeMinWatchTime(record, input) ==
  LET newValue == parseInt(input)
  IN  IF cancelled(input) THEN record
      ELSE IF newValue.isNaN \/ newValue.value < 10 \/ newValue.value > 300 THEN record
      ELSE IF newValue.value > record.maxWatchTimeSeconds THEN record
      ELSE [record EXCEPT !.minWatchTimeSeconds = newValue.value]

changeMaxWatchTime(record, input) ==
  LET newValue == parseInt(input)
  IN  IF cancelled(input) THEN record
      ELSE IF newValue.isNaN \/ newValue.value < 60 \/ newValue.value > 3600 THEN record
      ELSE IF newValue.value < record.minWatchTimeSeconds THEN record
      ELSE [record EXCEPT !.maxWatchTimeSeconds = newValue.value]

toggleLikeVideos(record) == [record EXCEPT !.likeVideos = ~record.likeVideos]

toggleSubscribe(record) ==
  [record EXCEPT !.subscribeToChannels = ~record.subscribeToChannels]

changePauseTime(record, input) ==
  LET newValue == parseInt(input)
  IN  IF cancelled(input) THEN record
      ELSE IF newValue.isNaN \/ newValue.value < 10 \/ newValue.value > 300 THEN record
      ELSE [record EXCEPT !.pauseBetweenChannelsSeconds = newValue.value]

lowerText(text) == IF text = <<"Y">> THEN <<"y">> ELSE text

\* the defaults it writes hold none of the rotation fields
resetToDefaults(record, confirm) ==
  IF lowerText(confirm) # <<"y">> THEN record ELSE DefaultSettings

\* saveSettings, and showMenu's loadSettings before the next choice
SaveSettings(record) ==
  /\ pc = "settings"
  /\ settingsFile' = record
  /\ settings' = record
  /\ UNCHANGED <<channelsFile, commentsFile, pc, heap, channels, comments>>
  /\ UNCHANGED <<reorderedChannels, i, originalIndex, exitReason, staleQuestion, slept, skipped>>
  /\ UNCHANGED <<visitVars, logVars>>

\* what the operator types at a settings prompt
SettingsNumbers == {0, 5, 9, 10, 59, 60, 100, 101, 300, 301, 600, 3600, 3601}

SettingsInputs ==
  { numeral(n) : n \in SettingsNumbers }
    \cup { <<>>, <<"a", "b", "c">>, <<"-", "6", "0">>, <<"9", "0", "s">>, <<"y">>, <<"Y">>, <<"n">> }

ChangeWatchTimePercentage(text) ==
  SaveSettings(changeWatchTimePercentage(settingsFile, getInputText(text)))

ChangeMinWatchTime(text) ==
  SaveSettings(changeMinWatchTime(settingsFile, getInputText(text)))

ChangeMaxWatchTime(text) ==
  SaveSettings(changeMaxWatchTime(settingsFile, getInputText(text)))

ToggleLikeVideos == SaveSettings(toggleLikeVideos(settingsFile))

ToggleSubscribe == SaveSettings(toggleSubscribe(settingsFile))

ChangePauseTime(text) ==
  SaveSettings(changePauseTime(settingsFile, getInputText(text)))

ResetToDefaults(text) ==
  SaveSettings(resetToDefaults(settingsFile, getInputText(text)))

\* the settings menu opened on a fresh installation: loadSettings writes the
\* defaults when settings.json is missing
InitSettings ==
  /\ channelsFile = <<>>
  /\ commentsFile = <<>>
  /\ settingsFile = DefaultSettings
  /\ pc = "settings"
  /\ heap = loadChannels(channelsFile)
  /\ channels = <<>>
  /\ comments = <<>>
  /\ settings = settingsFile
  /\ reorderedChannels = <<>>
  /\ i = 0
  /\ originalIndex = 0
  /\ videoDetails = NoDetails
  /\ watchTime = 0
  /\ commentResult = NoComment
  /\ initialVideoId = ""
  /\ elapsedSeconds = 0
  /\ watchState = "NotStarted"
  /\ success = FALSE
  /\ exitReason = None
  /\ staleQuestion = FALSE
  /\ slept = 0
  /\ skipped = {}
  /\ visits = 0
  /\ commentLog = <<>>
  /\ pre = NoPre
  /\ written = {}
  /\ succeeded = <<>>
  /\ runLast = NoRun
  /\ prevRun = NoRun

NextSettings ==
  \/ \E text \in SettingsInputs : ChangeWatchTimePercentage(text)
  \/ \E text \in SettingsInputs : ChangeMinWatchTime(text)
  \/ \E text \in SettingsInputs : ChangeMaxWatchTime(text)
  \/ ToggleLikeVideos
  \/ ToggleSubscribe
  \/ \E text \in SettingsInputs : ChangePauseTime(text)
  \/ \E text \in SettingsInputs : ResetToDefaults(text)

SpecSettings == InitSettings /\ [][NextSettings]_vars

\* ---------------------------------------------------- addChannel
\* a channel URL is a sequence of separators and words
Site == <<"https:", "/", "/", "www.youtube.com", "/">>

ChannelUrls ==
  { Site \o <<"@", "a">>, Site \o <<"@", "b">>, Site \o <<"@", "c">>,
    Site \o <<"@", "a", "/", "videos">>, Site \o <<"channel", "/", "b">> }

\* what the operator types at 'Enter YouTube channel URL'
UrlInputs == ChannelUrls \cup { <<"0">>, <<>> }

\* positions of a separator in a URL, and the part that follows position k up
\* to the next occurrence of the separator
positionsOf(url, separator) == { k \in 1..Len(url) : url[k] = separator }

partAfter(url, separator, k) ==
  LET later == { j \in positionsOf(url, separator) : j > k }
      end   == IF later = {} THEN Len(url) + 1 ELSE CHOOSE j \in later : \A other \in later : j <= other
  IN  SubSeq(url, k + 1, end - 1)

\* url.split(separator)[1], undefined when the separator does not occur
secondPart(url, separator) ==
  LET at == positionsOf(url, separator)
  IN  IF at = {} THEN <<Undefined>>
      ELSE partAfter(url, separator, CHOOSE j \in at : \A other \in at : j <= other)

\* url.split(separator)[0]
firstPart(url, separator) ==
  LET at == positionsOf(url, separator)
  IN  IF at = {} THEN url
      ELSE SubSeq(url, 1, (CHOOSE j \in at : \A other \in at : j <= other) - 1)

\* url.split(separator).pop()
lastPart(url, separator) ==
  LET at == positionsOf(url, separator)
  IN  IF at = {} THEN url
      ELSE partAfter(url, separator, CHOOSE j \in at : \A other \in at : j >= other)

getChannelIdentifier(url) ==
  IF positionsOf(url, "@") # {} THEN firstPart(secondPart(url, "@"), "/")
  ELSE lastPart(url, "/")

isDuplicate(file, channelUrl) ==
  \E k \in 1..Len(file) :
    \/ file[k].url = channelUrl
    \/ getChannelIdentifier(file[k].url) = getChannelIdentifier(channelUrl)

\* 'UC' + Math.random().toString(36).substring(2, 15): r / RandRes is the
\* random number; equal random numbers give equal ids
randomChannelId(r) == ChannelId(r + 1)

\* the channels.json addChannel leaves
addChannel(file, input, r) ==
  IF cancelled(input) THEN file
  ELSE IF isDuplicate(file, input) THEN file
  ELSE Append(file, newChannel(randomChannelId(r)) @@ [url |-> input])

AddChannel(text, r) ==
  /\ pc = "channels"
  /\ Len(channelsFile) < MaxChannels
  /\ channelsFile' = addChannel(channelsFile, getInputText(text), r)
  /\ UNCHANGED <<commentsFile, settingsFile, pc, exitReason, staleQuestion, slept, skipped>>
  /\ UNCHANGED <<runVars, visitVars, logVars>>

\* the channels menu opened with no channels.json
InitAdd ==
  /\ channelsFile = <<>>
  /\ commentsFile = <<>>
  /\ settingsFile = DefaultSettings
  /\ pc = "channels"
  /\ heap = <<>>
  /\ channels = <<>>
  /\ comments = <<>>
  /\ settings = settingsFile
  /\ reorderedChannels = <<>>
  /\ i = 0
  /\ originalIndex = 0
  /\ videoDetails = NoDetails
  /\ watchTime = 0
  /\ commentResult = NoComment
  /\ initialVideoId = ""
  /\ elapsedSeconds = 0
  /\ watchState = "NotStarted"
  /\ success = FALSE
  /\ exitReason = None
  /\ staleQuestion = FALSE
  /\ slept = 0
  /\ skipped = {}
  /\ visits = 0
  /\ commentLog = <<>>
  /\ pre = NoPre
  /\ written = {}
  /\ succeeded = <<>>
  /\ runLast = NoRun
  /\ prevRun = NoRun

NextAdd == \E text \in UrlInputs, r \in 0..(RandRes - 1) : AddChannel(text, r)

SpecAdd == InitAdd /\ [][NextAdd]_vars

\* ------------------------------------------------------------- properties
\* the exact-arithmetic value max(min(min, d), min(floor(d * pct / 100), max))
ExactWatchTime(d, pct, minTime, maxTime) ==
  Max(Min(minTime, d), Min((d * pct) \div 100, maxTime))

Calculated == videoDetails # NoDetails /\ pc # "calculate"

\* C7: for every durationSeconds, watchTimePercentage, minWatchTimeSeconds and
\* maxWatchTimeSeconds, calculateWatchTime returns
\* max(min(min, d), min(floor(d * pct / 100), max)), the floor taken of the
\* exact quotient
C7_ExactFormula ==
  Calculated =>
    watchTime = ExactWatchTime(videoDetails.durationSeconds, settings.watchTimePercentage,
                               settings.minWatchTimeSeconds, settings.maxWatchTimeSeconds)

\* C8: for durationSeconds >= 1, percentage in 10..100, min in 10..300, max in
\* 60..3600 and min <= max, the watch time lies in 1..durationSeconds and
\* between min(min, durationSeconds) and max
C8_WatchTimeBounds ==
  Calculated =>
    /\ 1 <= watchTime
    /\ watchTime <= videoDetails.durationSeconds
    /\ Min(settings.minWatchTimeSeconds, videoDetails.durationSeconds) <= watchTime
    /\ watchTime <= settings.maxWatchTimeSeconds

\* a video shorter than the minimum is watched for its whole length
C8_Witness ==
  /\ Calculated
  /\ videoDetails.durationSeconds = 50
  /\ settings.watchTimePercentage = 70
  /\ settings.minWatchTimeSeconds = 60
  /\ settings.maxWatchTimeSeconds = 600
  /\ watchTime = 50

\* ------------------------------------------------- properties of the run
\* array rotated left by k places, written position by position
RotateLeft(array, k) ==
  [j \in 1..Len(array) |-> array[((j - 1 + k) % Len(array)) + 1]]

\* startSupporting has just computed reorderedChannels from the loaded settings
OrderComputed == pc = "visit" /\ i = 0

\* C1: for a non-empty channel list and lastChannelIndex in -1..length-1,
\* rotateChannels true or false, the visiting order holds every channel of
\* the list exactly once
C1_OrderIsPermutation ==
  (OrderComputed /\ settings.lastChannelIndex \in -1..(Len(channels) - 1)) =>
    /\ Len(reorderedChannels) = Len(channels)
    /\ \A channel \in Range(channels) :
         Cardinality({k \in DOMAIN reorderedChannels : reorderedChannels[k] = channel}) = 1

\* three channels, last index 1: the order starts at the third channel
C1_Witness ==
  /\ OrderComputed
  /\ Len(channels) = 3
  /\ settings.rotateChannels
  /\ settings.lastChannelIndex = 1
  /\ reorderedChannels = <<channels[3], channels[1], channels[2]>>

\* C2: the visiting order is the list unchanged when rotateChannels is false
\* or lastChannelIndex < 0, the list rotated left by
\* (lastChannelIndex + 1) mod length otherwise, and the one channel of a
\* single-channel list whatever the settings
C2_OrderIsRotation ==
  OrderComputed =>
    /\ reorderedChannels =
         IF ~settings.rotateChannels \/ settings.lastChannelIndex < 0
         THEN channels
         ELSE RotateLeft(channels, (settings.lastChannelIndex + 1) % Len(channels))
    /\ Len(channels) = 1 => reorderedChannels = channels

\* the last index of a three-channel list wraps to the first channel
C2_Witness ==
  /\ OrderComputed
  /\ Len(channels) = 3
  /\ settings.rotateChannels
  /\ settings.lastChannelIndex = 2
  /\ reorderedChannels = channels

\* the ids of the channels in visiting order
OrderIds == [j \in 1..Len(reorderedChannels) |-> heap[reorderedChannels[j]].id]

\* C3: with rotateChannels true and the same channel list, when the last
\* channel supported in a run had original index k, the next run visits the
\* channel of original index (k + 1) mod n first and goes on in list order
C3_NextRunResumes ==
  (OrderComputed /\ settings.rotateChannels /\ prevRun.last >= 0
     /\ prevRun.ids = runLast.ids) =>
    OrderIds = RotateLeft(runLast.ids, (prevRun.last + 1) % Len(runLast.ids))

\* [A,B,C], A supported last: the next run visits B, C, A
C3_Witness ==
  /\ OrderComputed
  /\ settings.rotateChannels
  /\ prevRun.last = 0
  /\ prevRun.ids = runLast.ids
  /\ OrderIds = <<ChannelId(2), ChannelId(3), ChannelId(1)>>

\* position in the list as loaded of the channel the loop body is at
PositionInList ==
  CHOOSE k \in 0..(Len(channels) - 1) : channels[k + 1] = reorderedChannels[i + 1]

\* C4: after a successfully supported channel with rotateChannels true the
\* persisted lastChannelIndex is the channel's index in the original list,
\* not its position in the visiting order; after a failed visit, or with
\* rotateChannels false, it is what it was before the visit
C4_PersistedOriginalIndex ==
  pc = "prompt" =>
    IF success /\ settings.rotateChannels
    THEN settingsFile.lastChannelIndex = PositionInList
    ELSE settingsFile.lastChannelIndex = pre.lastChannelIndex

\* a success at a position of the visiting order that is not the original index
C4_Witness ==
  /\ pc = "prompt"
  /\ success
  /\ settings.rotateChannels
  /\ PositionInList # i
  /\ settingsFile.lastChannelIndex = PositionInList
  /\ pre.lastChannelIndex # PositionInList

\* C5: in rotation mode every selection uses index
\* (lastCommentIndex + 1) mod n, so consecutive selections follow the pool's
\* order, wrap from the last comment to the first, and any n consecutive
\* selections use every comment once
C5_CommentRotation ==
  LET n == Len(commentsFile)
  IN  /\ (pc = "watch" /\ commentResult.isRotated) =>
           /\ commentResult.index = (pre.lastCommentIndex + 1) % n
           /\ commentResult.comment = commentsFile[commentResult.index + 1]
      /\ \A k \in 1..(Len(commentLog) - 1) : commentLog[k + 1] = (commentLog[k] + 1) % n
      /\ \A k \in 1..(Len(commentLog) - n + 1) :
           {commentLog[j] : j \in k..(k + n - 1)} = 0..(n - 1)

\* two comments, three rotation visits: first, second, first again
C5_Witness ==
  /\ Len(commentsFile) = 2
  /\ commentLog = <<0, 1, 0>>

\* C6: for a non-empty pool, in random mode and in rotation mode, the chosen
\* comment is an element of the pool and the chosen index is in
\* 0..comments.length-1
C6_CommentFromPool ==
  pc = "watch" =>
    /\ commentResult.index \in 0..(Len(comments) - 1)
    /\ commentResult.comment \in Range(comments)

\* the largest random number picks the last comment of a pool of three
C6_Witness ==
  /\ pc = "watch"
  /\ ~commentResult.isRotated
  /\ Len(comments) = 3
  /\ commentResult.index = 2
  /\ commentResult.comment = CommentText(3)

\* C9: with an empty channel list or an empty comment pool startSupporting
\* returns before any visit: supportChannel is not called, nothing is
\* navigated to, no file is written
C9_EmptyAborts ==
  (Len(channelsFile) = 0 \/ Len(commentsFile) = 0) =>
    /\ pc \in {"menu", "start", "error"}
    /\ visits = 0
    /\ written = {}
    /\ exitReason \in {None, "noBrowser", "notAuthenticated", "noChannels", "noComments",
                      "gaveUp"}

\* channels exist, the pool is empty, and the run has returned for that reason
C9_Witness ==
  /\ Len(channelsFile) > 0
  /\ Len(commentsFile) = 0
  /\ pc = "menu"
  /\ exitReason = "noComments"

\* the visit whose watch was interrupted has been recorded as supported
InterruptedRecorded ==
  /\ success
  /\ channelsFile[originalIndex + 1].supportCount = pre.supportCount + 1
  /\ channelsFile[originalIndex + 1].lastSupported = Now
  /\ channelsFile[originalIndex + 1].lastSupported # pre.lastSupported
  /\ "channels" \in written

\* C10 as stated: whenever the id observed at a poll differs from the id
\* recorded when watching started, the watch ends as Interrupted
C10_AnyDifferenceInterrupts ==
  [][\A videoState \in VideoStates :
       (Poll(videoState) /\ ~videoState.throws /\ videoState.videoId # initialVideoId)
         => watchState' = "Interrupted"]_vars

\* C10: whenever the id observed at a poll differs from the non-empty id
\* recorded when watching started, the watch ends as Interrupted, and the
\* visit of an interrupted watch is recorded as supported: supportCount is one
\* more and lastSupported is the time of the visit
C10_ChangeInterruptsAndCounts ==
  /\ [][\A videoState \in VideoStates :
          (Poll(videoState) /\ ~videoState.throws /\ initialVideoId # ""
             /\ videoState.videoId # initialVideoId)
            => (watchState' = "Interrupted" /\ success' /\ pc' = "record")]_vars
  /\ []((pc = "prompt" /\ watchState = "Interrupted") => InterruptedRecorded)

\* an interrupted watch whose visit has been counted
C10_Witness ==
  /\ pc = "prompt"
  /\ watchState = "Interrupted"
  /\ InterruptedRecorded

\* the channel record of the visit in channels.json is what it was before
RecordUntouched ==
  /\ channelsFile[originalIndex + 1].supportCount = pre.supportCount
  /\ channelsFile[originalIndex + 1].lastSupported = pre.lastSupported

\* C11: when the browser throws while the visit is Watching, the visit ends as
\* Errored, is recorded as failed, and supportCount and lastSupported of the
\* channel are not changed
C11_ErroredNotCounted ==
  (pc = "prompt" /\ watchState = "Errored") => (~success /\ RecordUntouched)

\* the positions inside supportChannel
VisitSteps ==
  {"visit", "find", "goto", "details", "calculate", "subscribe", "like", "comment",
   "watch", "sleep", "poll"}

\* C12: no failure inside a visit ends the run: a visit that fails (page
\* missing, navigation failed, no video found, an exception) returns false to
\* the loop body, which records nothing, asks whether to continue and, when
\* the answer is to continue, goes on with the next channel of the order
C12_FailureDoesNotEndRun ==
  /\ [][(pc \in VisitSteps /\ pc' \notin VisitSteps) => pc' = "record"]_vars
  /\ [][(pc \in {"visit", "find", "goto"} /\ pc' = "record") => ~success']_vars
  /\ [][(pc = "record" /\ ~success) =>
          (pc' = "prompt" /\ UNCHANGED <<fileVars, reorderedChannels, i>>)]_vars
  /\ [][\A line \in Typed :
          (ContinuePrompt(line) /\ ~success /\ i + 1 < Len(reorderedChannels)
             /\ toLowerCase(getInputWithTimeout(line, "y")) = "y")
            => (pc' = "pause" /\ UNCHANGED <<fileVars, reorderedChannels, i>>)]_vars
  /\ [][(pc = "pause" /\ i + 1 < Len(reorderedChannels))
          => (pc' = "visit" /\ i' = i + 1 /\ UNCHANGED <<fileVars, reorderedChannels>>)]_vars

\* the first visit of the run failed and the run is at its second channel
C12_Witness ==
  /\ pc = "visit"
  /\ i = 1
  /\ visits = 1
  /\ written = {}
  /\ runLast.last = -1

\* C13: over any sequence of runs the persisted supportCount of every channel
\* is the number of visits to it that returned success: one more per
\* successful visit, and a failed visit leaves supportCount and lastSupported
\* as they were
C13_CountIsSuccesses ==
  /\ \A k \in 1..Len(channelsFile) : channelsFile[k].supportCount = succeeded[k]
  /\ pc = "prompt" =>
       IF success
       THEN channelsFile[originalIndex + 1].supportCount = pre.supportCount + 1
       ELSE RecordUntouched

\* a channel supported in two runs, and a failed visit after a counted one
C13_Witness ==
  /\ pc = "prompt"
  /\ ~success
  /\ succeeded[originalIndex + 1] = 2
  /\ channelsFile[originalIndex + 1].supportCount = 2

\* C14: between channels the run asks whether to continue: after the answer n
\* no further channel is visited in the run, the run leaves the loop only at
\* that prompt (after the visit has finished), and when no answer arrives
\* within the timeout the next channel is visited
C14_PromptBetweenChannels ==
  /\ [][\A line \in Typed :
          (ContinuePrompt(line) /\ line = "n") => pc' = "restart"]_vars
  /\ [][\A line \in Typed :
          (ContinuePrompt(line) /\ line = NoAnswer /\ i + 1 < Len(reorderedChannels))
            => pc' = "pause"]_vars
  /\ [][(pc = "pause" /\ i + 1 < Len(reorderedChannels)) => (pc' = "visit" /\ i' = i + 1)]_vars
  /\ [][(pc \in VisitSteps \cup {"record"}) => (pc' \in VisitSteps \cup {"record", "prompt"})]_vars


\* C15: starting from the default settings, whatever the operator does in the
\* settings menu, the persisted minimum watch time never exceeds the
\* persisted maximum watch time.
C15_MinAtMostMax ==
  settingsFile.minWatchTimeSeconds <= settingsFile.maxWatchTimeSeconds

\* both limits edited onto the same value, away from the defaults
C15_Witness ==
  /\ pc = "settings"
  /\ settingsFile.minWatchTimeSeconds = 300
  /\ settingsFile.maxWatchTimeSeconds = 300

\* C16: after any sequence of addChannel operations the ids of the persisted
\* channel records are pairwise distinct, and the run loop's lookup of a
\* record's id returns that record's own index.
C16_IdsDistinct ==
  /\ \A a, b \in 1..Len(channelsFile) :
       channelsFile[a].id = channelsFile[b].id => a = b
  /\ \A k \in 1..Len(channelsFile) :
       findIndex(loadChannels(channelsFile), [a \in 1..Len(channelsFile) |-> a],
                 channelsFile[k].id) = k - 1

\* the identifier a poll reports differs from a non-empty initial identifier
idChanged(videoState) == videoState.videoId # initialVideoId /\ initialVideoId # ""

\* C17: while Watching, a poll that neither throws nor reports a changed
\* identifier ends the watch as Completed exactly when the elapsed time
\* reaches the target with it or it reports the video ended or near its end;
\* otherwise the watch goes on. The loop is left only towards the recording
\* of the visit, as Completed, Interrupted or Errored, and no operator input
\* is read while it runs.
C17_CompletedExactlyWhen ==
  /\ [][\A videoState \in VideoStates :
          (Poll(videoState) /\ ~videoState.throws /\ ~idChanged(videoState))
            => /\ watchState' = "Completed"
                    <=> \/ elapsedSeconds + checkInterval >= watchTime
                        \/ videoState.hasEnded
                        \/ videoState.isNearEnd
               /\ watchState' \in {"Completed", "Watching"}
               /\ watchState' = "Watching" <=> pc' = "sleep"]_vars
  /\ [][(pc \in {"sleep", "poll"} /\ pc' \notin {"sleep", "poll"})
          => (pc' = "record" /\ watchState' \in {"Completed", "Interrupted", "Errored"})]_vars
  /\ [](pc \in {"sleep", "poll"} =>
          /\ watchState = "Watching"
          /\ \A line \in Typed :
               ~ENABLED ConfirmStart(line) /\ ~ENABLED ContinuePrompt(line)
                 /\ ~ENABLED RestartPrompt(line))

\* a watch ended by a report of the end, after one full interval and short of
\* the target
C17_Witness ==
  /\ pc = "record"
  /\ watchState = "Completed"
  /\ elapsedSeconds = checkInterval
  /\ elapsedSeconds + checkInterval < watchTime

\* C18: the watch loop polls every 10 seconds. A poll that does not end the
\* watch advances the elapsed time by exactly 10; every poll, the first one
\* included, comes after a full sleep of 10 seconds, so that k polls have
\* slept 10 * k seconds; and a watch completed by reaching the target ends
\* with the least multiple of 10 that is at least the target.
C18_FixedInterval ==
  /\ [][\A videoState \in VideoStates :
          (Poll(videoState) /\ pc' # "record") => elapsedSeconds' = elapsedSeconds + 10]_vars
  /\ [][pc' = "poll" => (pc = "sleep" /\ slept' = slept + 10)]_vars
  /\ [](pc = "poll" => (slept >= 10 /\ slept = elapsedSeconds + 10))
  /\ []((pc = "record" /\ watchState = "Completed" /\ elapsedSeconds >= watchTime)
          => /\ elapsedSeconds % 10 = 0
             /\ elapsedSeconds - 10 < watchTime
             /\ slept = elapsedSeconds)

\* a target that is no multiple of 10, reached at the fourth poll
C18_Witness ==
  /\ pc = "record"
  /\ watchState = "Completed"
  /\ watchTime = 31
  /\ elapsedSeconds = 40
  /\ slept = 40

\* the steps of a visit up to the choice of the comment
BeforeComment == {"visit", "find", "goto", "details", "calculate", "subscribe", "like", "comment"}

\* C19: the persisted lastCommentIndex changes only when a successful visit
\* whose comment selection reported isRotated is recorded, and it then
\* becomes the index that selection returned; the recording of a visit with
\* a random selection, the recording of a failed visit and every other step
\* leave it as it was.
C19_CommentIndexPersisted ==
  /\ [](pc \in BeforeComment => ~settings.commentIndexUpdated)
  /\ [][\A mode \in {"rotation", "random"}, r \in 0..(RandRes - 1), posted \in BOOLEAN :
          Comment(mode, r, posted)
            => /\ settings'.commentIndexUpdated <=> commentResult'.isRotated
               /\ commentResult'.isRotated
                    => commentLog' = Append(commentLog, commentResult'.index)
               /\ ~commentResult'.isRotated => commentLog' = commentLog]_vars
  /\ [][RecordOutcome
          => IF success /\ settings.commentIndexUpdated
             THEN settingsFile'.lastCommentIndex = commentLog[Len(commentLog)]
             ELSE settingsFile'.lastCommentIndex = settingsFile.lastCommentIndex]_vars
  /\ [][pc # "record" => settingsFile'.lastCommentIndex = settingsFile.lastCommentIndex]_vars

\* a successful visit with a rotated comment moved the persisted index from
\* 0 to 1, after an earlier visit had moved it to 0
C19_Witness ==
  /\ pc = "prompt"
  /\ success
  /\ commentLog = <<0, 1>>
  /\ pre.lastCommentIndex = 0
  /\ settingsFile.lastCommentIndex = 1

\* the duration the page states: the video element's when it is reliable,
\* else the one of the duration text, else none
statedDuration(page) ==
  IF reliable(page.element) THEN Num(round(page.element.tenths))
  ELSE IF page.text.present /\ Len(page.text.parts) \in {2, 3}
       THEN textSeconds(page.text.parts, NaN)
       ELSE NaN

\* C20: getVideoDetails always yields a positive durationSeconds: 300 when
\* reading the page throws, for a live stream, and when the duration the
\* page states is missing, not a number, zero or negative, and the stated
\* duration otherwise; so calculateWatchTime is called with a positive
\* duration.
C20_PositiveDuration ==
  /\ [][\A page \in VideoPages :
          GetVideoDetails(page)
            => /\ videoDetails'.durationSeconds > 0
               /\ IF \/ page.throws
                     \/ page.isLive
                     \/ statedDuration(page).isNaN
                     \/ statedDuration(page).value <= 0
                  THEN videoDetails'.durationSeconds = 300
                  ELSE videoDetails'.durationSeconds = statedDuration(page).value]_vars
  /\ [](pc = "calculate" => videoDetails.durationSeconds > 0)
  /\ [][CalculateWatchTime => videoDetails.durationSeconds > 0]_vars

\* the watch time has been computed from the fallback duration
C20_Witness ==
  /\ pc \notin {"details", "calculate"}
  /\ videoDetails.durationSeconds = 300
  /\ watchTime = calculateWatchTime(videoDetails, settings)
  /\ watchTime > 0

\* the step that follows an engagement action in supportChannel
FollowingStep ==
  IF pc = "subscribe" THEN (IF settings.likeVideos THEN "like" ELSE "comment")
  ELSE IF pc = "like" THEN "comment" ELSE "watch"

\* C21: when the subscribe button, the like button or the comment box is
\* absent or the action on it throws, the action resolves to false and only
\* that action is skipped: the visit goes on to the following action or to
\* the watch with nothing else changed, the watch is entered, and a watch
\* that completes makes the visit a successful one.
C21_EngagementSkipped ==
  /\ [][(pc \in {"subscribe", "like", "comment"} /\ skipped' # skipped)
          => /\ pc' = FollowingStep
             /\ skipped' = skipped \cup {pc}
             /\ UNCHANGED <<fileVars, success, watchState, watchTime, videoDetails>>]_vars
  /\ [][(pc = "watch" /\ skipped # {}) => pc' \in {"sleep", "record"}]_vars
  /\ [][(pc' = "record" /\ watchState' = "Completed") => success']_vars

\* all three actions were skipped and the visit stands before the watch
C21_Witness ==
  /\ pc = "watch"
  /\ skipped = {"subscribe", "like", "comment"}
  /\ ~success

\* C22: channels are visited one at a time. A visit starts either as the
\* first of a run, after the start confirmation, or after the pause that
\* follows the continuation prompt, which follows the recording of the
\* previous visit's outcome, which follows that visit's return; the run
\* takes the next position of the order each time, so that no channel is
\* visited twice in a run.
C22_OneVisitAtATime ==
  /\ [][pc' = "visit" => \/ (pc = "confirm" /\ i' = 0)
                         \/ (pc = "pause" /\ i' = i + 1)]_vars
  /\ [][(pc' = "pause" /\ pc # "pause") => pc = "prompt"]_vars
  /\ [][(pc' = "prompt" /\ pc # "prompt") => pc = "record"]_vars
  /\ [][(pc' = "record" /\ pc # "record") => pc \in VisitSteps]_vars
  /\ []((pc \in {"prompt", "pause"} /\ success) => "channels" \in written)
  /\ []((pc = "prompt" /\ success)
          => channelsFile[originalIndex + 1].supportCount = pre.supportCount + 1)
  /\ [](pc \in VisitSteps \cup {"record", "prompt", "pause"}
          => /\ i < Len(reorderedChannels)
             /\ \A k \in 1..i :
                  /\ reorderedChannels[k] # reorderedChannels[i + 1]
                  /\ heap[reorderedChannels[k]].id # heap[reorderedChannels[i + 1]].id)

\* the third visit of a run begins, after two recorded successes
C22_Witness ==
  /\ pc = "visit"
  /\ i = 2
  /\ "channels" \in written
  /\ \A k \in 1..2 : succeeded[reorderedChannels[k]] = 1

\* the ids of the persisted channel list, in file order
PersistedIds == [k \in 1..Len(channelsFile) |-> channelsFile[k].id]

\* the steps of a run after the visiting order was computed
RunSteps == VisitSteps \cup {"record", "prompt", "pause", "restart"}

\* C23: a run never adds, removes or reorders records of the persisted
\* channel list: whenever channels.json changes, a successful visit is being
\* recorded, the list keeps its length and its ids in the original order, the
\* record of the visited channel alone differs, and only in supportCount and
\* lastSupported; throughout a run the persisted ids are those loaded.
C23_ListKeptInOrder ==
  /\ [][channelsFile' # channelsFile
          => /\ pc = "record" /\ success
             /\ Len(channelsFile') = Len(channelsFile)
             /\ \A k \in 1..Len(channelsFile) :
                  /\ channelsFile'[k].id = channelsFile[k].id
                  /\ k # reorderedChannels[i + 1] => channelsFile'[k] = channelsFile[k]
             /\ DOMAIN channelsFile'[reorderedChannels[i + 1]]
                  = DOMAIN channelsFile[reorderedChannels[i + 1]]]_vars
  /\ [](pc \in RunSteps => PersistedIds = runLast.ids)

\* a run in rotated order has written channels.json twice
C23_Witness ==
  /\ pc = "prompt"
  /\ success
  /\ i = 1
  /\ reorderedChannels = <<3, 1, 2>>
  /\ channelsFile[3].supportCount = 1
  /\ channelsFile[1].supportCount = 1
  /\ PersistedIds = <<ChannelId(1), ChannelId(2), ChannelId(3)>>

\* the persisted settings are within the ranges of the settings menu
SettingsInRange ==
  /\ settingsFile.watchTimePercentage \in 10..100
  /\ settingsFile.minWatchTimeSeconds \in 10..300
  /\ settingsFile.maxWatchTimeSeconds \in 60..3600
  /\ settingsFile.pauseBetweenChannelsSeconds \in 10..300

\* a typed line is a number: an optional sign and decimal digits, nothing else
isNumeric(text) ==
  LET first == IF Len(text) > 0 /\ text[1] \in {"-", "+"} THEN 2 ELSE 1
  IN  first <= Len(text) /\ \A k \in first..Len(text) : isDigit(text[k])

\* the line is no number, or its number lies outside low..high
invalidValue(text, low, high) ==
  ~isNumeric(text) \/ parseInt(text).value \notin low..high

\* C24: starting from the default settings, after any sequence of
\* settings-menu edits the persisted values are in range (percentage 10..100,
\* minimum 10..300, maximum 60..3600, pause 10..300), and an edit whose value
\* is not numeric or is out of range leaves the persisted settings unchanged.
C24_RangesAndRejection ==
  /\ []SettingsInRange
  /\ [][\A text \in SettingsInputs :
          /\ (ChangeWatchTimePercentage(text) /\ invalidValue(text, 10, 100))
               => UNCHANGED settingsFile
          /\ (ChangeMinWatchTime(text) /\ invalidValue(text, 10, 300))
               => UNCHANGED settingsFile
          /\ (ChangeMaxWatchTime(text) /\ invalidValue(text, 60, 3600))
               => UNCHANGED settingsFile
          /\ (ChangePauseTime(text) /\ invalidValue(text, 10, 300))
               => UNCHANGED settingsFile]_vars

\* the positions at which startSupporting asks a timed prompt
TimedPrompts == {"confirm", "prompt", "restart"}

\* what the claim has a timed prompt with default 'y' yield for a line
promptResult(line) ==
  IF line = NoAnswer THEN "y"
  ELSE IF getInput(line) = "EMPTY_INPUT" THEN "y" ELSE getInput(line)

\* C25: a timed prompt yields the trimmed answer of the operator when it
\* arrives before the timeout (the default value for an empty answer) and
\* the default value when the timeout elapses first.
C25_TimedPromptResult ==
  pc \in TimedPrompts
    => \A line \in Typed : getInputWithTimeout(line, "y") = promptResult(line)

\* ceil(target / 10)
MaxPolls(target) == (target + 9) \div 10

\* C26: the watch loop terminates for every finite target: whatever video
\* states the browser reports, it has begun at most ceil(target / 10) passes
\* (each begins with a sleep of 10 seconds) when it ends, and it does end, as
\* Completed, Interrupted or Errored.
C26_WatchTerminates ==
  /\ [](slept \div 10 <= MaxPolls(watchTime))
  /\ [](pc = "record" => watchState \in {"Completed", "Interrupted", "Errored"})
  /\ <>(pc = "record")

\* interrupted at the last pass the target allows
C26_Witness ==
  /\ pc = "record"
  /\ watchState = "Interrupted"
  /\ watchTime = 21
  /\ slept \div 10 = MaxPolls(watchTime)

\* ---------------------------------------------------------------- C27
\* settings.json names a last channel that channels.json no longer has
staleIndex(config, length) == config.lastChannelIndex >= length

\* C27: for every non-empty channel list and every lastChannelIndex >= 0,
\* a stale one >= channels.length included, the start index computed by
\* startSupporting lies in 0..channels.length-1 and the visiting order is a
\* permutation of the list, beginning with the channel at the start index
C27_StaleIndexWraps ==
  [][(pc = "confirm" /\ pc' = "visit" /\ settings.lastChannelIndex >= 0) =>
       LET startIndex == startIndexOf(settings, Len(channels))
       IN  /\ startIndex \in 0..(Len(channels) - 1)
           /\ Len(reorderedChannels') = Len(channels)
           /\ \A address \in Range(channels) :
                \E k \in DOMAIN reorderedChannels' :
                  /\ reorderedChannels'[k] = address
                  /\ \A other \in DOMAIN reorderedChannels' :
                       reorderedChannels'[other] = address => other = k
           /\ reorderedChannels'[1] = channels[startIndex + 1]]_vars

\* two channels are left and the last index still says 2: the run starts at
\* the second channel and goes on with the first
C27_Witness ==
  /\ OrderComputed
  /\ Len(channels) = 2
  /\ settings.rotateChannels
  /\ settings.lastChannelIndex = 2
  /\ staleIndex(settingsFile, Len(channelsFile))
  /\ reorderedChannels = <<channels[2], channels[1]>>

\* ---------------------------------------------------------------- C28
PreconditionFailures == {"noBrowser", "notAuthenticated", "noChannels", "noComments"}

\* the prompt received the line, and it is not a yes
answeredNo(line) == line # NoAnswer /\ toLowerCase(getInputWithTimeout(line, "y")) # "y"

\* C28: startSupporting returns to the menu only when a precondition check
\* fails, or the start confirmation is answered with something other than
\* y, or the restart or the try-again prompt is answered with something
\* other than y; when the prompts time out, a finished run is followed by a
\* new call that loads channels, comments and settings again and starts to
\* visit
C28_ReturnsOnlyOnRefusal ==
  [][/\ (pc # "menu" /\ pc' = "menu") =>
          \/ /\ pc = "start"
             /\ exitReason' \in PreconditionFailures
             /\ exitReason' = "noChannels" => Len(channelsFile) = 0
             /\ exitReason' = "noComments" => Len(commentsFile) = 0
          \/ /\ pc = "confirm"
             /\ \E line \in Typed : answeredNo(line) /\ ConfirmStart(line)
          \/ /\ pc = "restart"
             /\ \E line \in Typed : answeredNo(line) /\ RestartPrompt(line)
          \/ /\ pc = "error"
             /\ \E line \in Typed : answeredNo(line) /\ TryAgainPrompt(line)
     /\ (pc \in {"restart", "error"} /\ staleQuestion') => pc' = "start"
     /\ (pc = "start" /\ pc' = "confirm") =>
          /\ heap' = loadChannels(channelsFile)
          /\ comments' = commentsFile
          /\ settings' = settingsFile
     /\ (pc = "confirm" /\ staleQuestion') => (pc' = "visit" /\ i' = 0)]_vars

\* one channel, supported in a first run and, after the restart, loaded with
\* that count and supported again; then the restart is refused
C28_Witness ==
  /\ pc = "menu"
  /\ exitReason = "finished"
  /\ Len(channelsFile) = 1
  /\ visits = 2
  /\ channelsFile[1].supportCount = 2

\* ---------------------------------------------------------------- C29
\* the steps of supportChannel from which a step can be entered
Predecessors(step) ==
  CASE step = "find" -> {"visit"}
    [] step = "goto" -> {"find"}
    [] step = "details" -> {"goto"}
    [] step = "calculate" -> {"details"}
    [] step = "subscribe" -> {"calculate"}
    [] step = "like" -> {"calculate", "subscribe"}
    [] step = "comment" -> {"calculate", "subscribe", "like"}
    [] step = "watch" -> {"comment"}
    [] step = "sleep" -> {"watch", "poll"}
    [] step = "poll" -> {"sleep"}
    [] OTHER -> {}

\* C29: within one visit the steps follow each other in the order: the
\* channel's videos page, the latest video, the video's page, the watch time,
\* subscribe (only with subscribeToChannels), like (only with likeVideos),
\* comment, watch; a visit whose navigation fails or that finds no video
\* returns failure without a subscribe, like, comment or watch step
C29_StepOrder ==
  [][/\ (pc' # pc /\ pc' \in VisitSteps \ {"visit"}) => pc \in Predecessors(pc')
     /\ pc = "calculate" =>
          /\ pc' = "subscribe" <=> settings.subscribeToChannels
          /\ pc' = "like" <=> (~settings.subscribeToChannels /\ settings.likeVideos)
          /\ pc' = "comment" <=> (~settings.subscribeToChannels /\ ~settings.likeVideos)
     /\ pc = "subscribe" => (pc' = "like" <=> settings.likeVideos)
     /\ pc = "subscribe" => (pc' = "comment" <=> ~settings.likeVideos)
     /\ pc = "like" => pc' = "comment"
     /\ pc = "comment" => pc' = "watch"
     /\ (pc \in {"visit", "find", "goto"} /\ pc' \notin {"find", "goto", "details"}) =>
          /\ pc' = "record"
          /\ ~success'
          /\ UNCHANGED <<skipped, slept, commentResult, commentLog, watchState, settings>>]_vars

\* both settings on: the visit has subscribed, liked and commented, in that
\* order, and now comes to the watch with its watch time
C29_Witness ==
  /\ pc = "watch"
  /\ settings.subscribeToChannels
  /\ settings.likeVideos
  /\ skipped = {}
  /\ commentResult # NoComment
  /\ watchTime = calculateWatchTime(videoDetails, settings)
  /\ watchTime > 0

\* ---------------------------------------------------------------- C30
\* C30: the marker _commentIndexUpdated that supportChannel puts on the
\* settings object in memory is in no settings record the run loop writes:
\* settings.json changes only in the record step of a visit, to the settings
\* object as it is after the marker's removal, whatever visits came before
C30_MarkerNeverSaved ==
  /\ [](~settingsFile.commentIndexUpdated)
  /\ [][settingsFile' # settingsFile =>
          /\ pc = "record" /\ success
          /\ settingsFile' = settings'
          /\ ~settings'.commentIndexUpdated]_vars

\* channels are not rotated, so settings.json was written for the marker
\* alone: it holds the new comment index and no marker, after a failed visit
\* and a successful one
C30_Witness ==
  /\ pc = "prompt"
  /\ success
  /\ visits = 2
  /\ i = 1
  /\ succeeded[reorderedChannels[1]] = 0
  /\ ~settings.rotateChannels
  /\ "settings" \in written
  /\ settingsFile.lastCommentIndex # pre.lastCommentIndex
  /\ ~settingsFile.commentIndexUpdated

====
